---- MODULE Spec2Model ----
(***************************************************************************)
(* A model of utils/v4l2-tracer/v4l2-tracer.cpp: main(), get_options(),    *)
(* clean() and tracer(), the process that writes the headers of a trace    *)
(* document, forks the traced child, waits for it and closes the document. *)
(* Spec is one run of the tool; SpecAgain is a run followed by a second    *)
(* one on the files the first has left.  SpecKeymap is the keymap parser,  *)
(* parse_toml_protocol, on one protocol table of a TOML keymap.            *)
(*                                                                         *)
(* Strings are sequences of symbols.  A symbol is one character, or a      *)
(* literal that no operation of the program ever matches in part (a        *)
(* command word, a directory prefix).  The searches of the program         *)
(* (std::string::find, rfind, substr) are computed on these sequences.     *)
(***************************************************************************)
EXTENDS Integers, Sequences, FiniteSets, TLC

(***************************************************************************)
(* Bounds of the model.                                                    *)
(***************************************************************************)
\* longest argument given to the -d / -m flags
MaxDevLen == 4
\* a file name is the concatenation of at most this many pieces
MaxPieces == 2
\* most call records the shim appends in one session
MaxCalls == 2
\* most flags in front of the command word
MaxFlags == 1
\* a document given to clean is the concatenation of at most this many pieces
MaxLines == 2
\* most integer parameters in a protocol table
MaxParams == 2
\* most entries in a scancodes table
MaxScancodes == 3

(***************************************************************************)
(* String literals of the program.                                         *)
(***************************************************************************)
S_trace == <<"trace">>
S_retrace == <<"retrace">>
S___retrace == <<"__retrace">>
S_clean == <<"clean">>
S_json == <<".", "j", "s", "o", "n">>
S__retrace == <<"_retrace">>
S__trace == <<"_trace">>
S_true == <<"true">>
S_dev_video == <<"/dev/video">>
S_dev_media == <<"/dev/media">>
S_clean_ == <<"clean_">>
S_v4l2_tracer == <<"/", "v4l2-tracer">>
S_libs == <<".libs">>
S_dot_libs == <<".", "/", ".libs">>
S_libv4l2tracer_so == <<"/", "libv4l2tracer.so">>
LIBTRACER_PATH == <<"/usr/lib", "/", "libv4l2tracer">>

\* std::string::npos, as the result of find and rfind
npos == -1
\* stdlib.h
EXIT_FAILURE == 1
\* std::to_string(time(nullptr)) loses its first five characters
timestamp_start_pos == 5

\* climits
SHRT_MAX == 32767
\* the byte 0, which ends a C string
NUL == "NUL"

Digits == {"0", "1", "2", "3", "4", "5", "6", "7", "8", "9"}

(***************************************************************************)
(* std::string operations.                                                 *)
(***************************************************************************)
\* s.find(pat): the 0-based position of the first occurrence, or npos
Find(s, pat) ==
  LET hits == {i \in 0..(Len(s) - Len(pat)) : SubSeq(s, i + 1, i + Len(pat)) = pat}
  IN IF hits = {} THEN npos ELSE CHOOSE i \in hits : \A j \in hits : i <= j

\* s.rfind(pat): the 0-based position of the last occurrence, or npos
RFind(s, pat) ==
  LET hits == {i \in 0..(Len(s) - Len(pat)) : SubSeq(s, i + 1, i + Len(pat)) = pat}
  IN IF hits = {} THEN npos ELSE CHOOSE i \in hits : \A j \in hits : j <= i

\* s.substr(pos, count); count = npos takes the rest (pos <= size in every use)
Substr(s, pos, count) ==
  IF count = npos \/ pos + count > Len(s)
  THEN SubSeq(s, pos + 1, Len(s))
  ELSE SubSeq(s, pos + 1, pos + count)

DigitOf(d) == <<"0", "1", "2", "3", "4", "5", "6", "7", "8", "9">>[d + 1]

\* std::to_string of a non-negative integer
RECURSIVE to_string(_)
to_string(n) ==
  IF n < 10 THEN <<DigitOf(n)>> ELSE to_string(n \div 10) \o <<DigitOf(n % 10)>>

(***************************************************************************)
(* The inputs: command lines and initial environments.                     *)
(***************************************************************************)
\* argv[0]: found through PATH, or started from its build directory
Progs == {<<"v4l2-tracer">>, <<".", "/", "v4l2-tracer">>}

DevChars == {"0", "9", "a", "-", " "}
DevStrings == UNION {[1..n -> DevChars] : n \in 0..MaxDevLen}

Pieces ==
  {<<"a">>, S_json, <<".", "j", "s", "o">>, <<"n">>, S__retrace, <<".", "t", "x", "t">>}

RECURSIVE Concats(_)
Concats(k) ==
  IF k = 0 THEN {<< >>}
  ELSE Concats(k - 1) \cup {s \o p : s \in Concats(k - 1), p \in Pieces}

FileNames == Concats(MaxPieces) \ {<< >>}

F_json == <<"a">> \o S_json

\* the short options of the tool, one that is none of them, the end-of-options
\* word, and two long options
ShortFlagArgs == {<<"-", c>> : c \in {"c", "g", "h", "r", "v", "y", "x"}}
FlagArgs == ShortFlagArgs \cup {<<"-", "-">>, <<"-", "-", "verbose">>, <<"-", "-", "bogus">>}

RECURSIVE FlagSeqs(_)
FlagSeqs(k) ==
  IF k = 0 THEN {<< >>}
  ELSE FlagSeqs(k - 1) \cup {fs \o <<f>> : fs \in FlagSeqs(k - 1), f \in FlagArgs}

\* what follows the flags: nothing, or a command word and its arguments
Tails ==
  { << >>, <<S_trace>>, <<S_trace, <<"ls">>>>, <<S_trace, <<"ls">>, <<"-", "c">>>>,
    <<S_retrace>>, <<S_retrace, F_json>>, <<S_clean>>, <<S_clean, F_json>>,
    <<S___retrace, F_json>>, <<<<"foo">>>>, <<<<"foo">>, <<"bar">>>> }

DevTails == { << >>, <<S_trace, <<"ls">>>> }

\* a traced command whose own options are spelled like the tool's
TargetOptions == <<<<"ls">>, <<"-", "g">>, <<"-", "d">>, <<"9">>>>

Argvs ==
  {<<p>> \o f \o t : p \in Progs, f \in FlagSeqs(MaxFlags), t \in Tails}
  \cup {<<<<"v4l2-tracer">>, S_retrace, n>> : n \in FileNames}
  \cup {<<<<"v4l2-tracer">>, <<"-", "c">>, S_retrace, n>> : n \in FileNames}
  \cup {<<<<"v4l2-tracer">>, <<"-", o>>, d>> \o t :
          o \in {"d", "m"}, d \in DevStrings, t \in DevTails}
  \cup {<<<<"v4l2-tracer">>>>, <<<<"v4l2-tracer">>, <<"-", "d">>>>}
  \cup {<<<<"v4l2-tracer">>, S___retrace, n>> : n \in FileNames}
  \cup {<<<<"v4l2-tracer">>>> \o f \o <<S_trace>> \o TargetOptions :
          f \in {<< >>, <<<<"-", "v">>>>}}

\* the second the wall clock shows when the tool is first started
StartTime == 1762300000
\* the seconds that pass from the start of a run to tracer's time(nullptr)
Waits == {0, 1}
\* the seconds between one start of the tool and the next
Elapsed == {1, 100000}

\* the pieces the documents given to clean are made of: lines with and
\* without a marker, the two halves of a marker, a NUL byte in a line
LinePieces ==
  { <<"f", "d", "\n">>, <<"x", "\n">>, <<"d", "\n">>, <<"f">>, <<"f", "\n">>,
    <<"f", NUL, "\n">>,
    <<"\"", "n", "a", "m", "e", "\"", "\n">>, <<"n", "a", "m", "e", "\n">> }

RECURSIVE Docs(_)
Docs(k) ==
  IF k = 0 THEN {<< >>}
  ELSE Docs(k - 1) \cup {d \o l : d \in Docs(k - 1), l \in LinePieces}

Filler(n) == [i \in 1..n |-> "x"]

\* documents with a line that does not fit the buffer of clean: a marker
\* across the end of the buffer, a marker in the rest of the line, one in
\* the rest of the line with the second half of one behind it, and one in
\* the first buffer
LongDocs ==
  { Filler(SHRT_MAX - 2) \o <<"f", "d", "\n">>,
    Filler(SHRT_MAX - 1) \o <<"f", "d", "\n", "x", "\n">>,
    Filler(SHRT_MAX - 2) \o <<"f", "f", "d", "\n", "d", "\n">>,
    <<"f", "d">> \o Filler(SHRT_MAX - 3) \o <<"x", "\n">> }

CleanDocs == Docs(MaxLines) \cup LongDocs

\* two short documents
SampleDocs ==
  { << >>, <<"[", "\n", "f", "d", "\n", "x", "\n", "\"", "n", "a", "m", "e", "\"", "\n",
             "]", "\n">> }

\* the files there are when the tool is started: for clean <name>, nothing
\* or a document of that name
InputFiles(av, docs) ==
  IF Len(av) >= 3 /\ av[Len(av) - 1] = S_clean
  THEN {<< >>} \cup {[n \in {av[Len(av)]} |-> d] : d \in docs}
  ELSE {<< >>}

\* the command lines of the runs that are followed by a second run
AgainArgvs ==
  { <<<<"v4l2-tracer">>, S_trace, <<"ls">>>>,
    <<<<"v4l2-tracer">>, S___retrace, F_json>>,
    <<<<"v4l2-tracer">>, S_clean, F_json>> }

EnvVars ==
  { "V4L2_TRACER_OPTION_COMPACT_PRINT", "V4L2_TRACER_OPTION_SET_VIDEO_DEVICE",
    "V4L2_TRACER_OPTION_VERBOSE", "V4L2_TRACER_OPTION_DEBUG",
    "V4L2_TRACER_OPTION_SET_MEDIA_DEVICE",
    "V4L2_TRACER_OPTION_WRITE_DECODED_TO_JSON_FILE",
    "V4L2_TRACER_OPTION_WRITE_DECODED_TO_YUV_FILE", "TRACE_ID", "LD_PRELOAD" }

Unset == [set |-> FALSE, val |-> << >>]
EmptyEnv == [v \in EnvVars |-> Unset]

\* a value a variable has before the tool starts
Preset == [set |-> TRUE, val |-> <<"outer">>]

\* the environment the tool is started in: nothing of the tool's set, a
\* TRACE_ID left by an outer invocation, every variable set already, or the
\* debug toggle alone
InitEnvs ==
  { EmptyEnv,
    [EmptyEnv EXCEPT !["TRACE_ID"] = Preset],
    [v \in EnvVars |-> Preset],
    [EmptyEnv EXCEPT !["V4L2_TRACER_OPTION_DEBUG"] = Preset] }

\* setenv(name, value, 1): the value is replaced
setenv1(e, name, value) == [e EXCEPT ![name] = [set |-> TRUE, val |-> value]]

\* setenv(name, value, 0): an existing value is kept
setenv0(e, name, value) ==
  IF e[name].set THEN e ELSE [e EXCEPT ![name] = [set |-> TRUE, val |-> value]]

(***************************************************************************)
(* The state of one run of the tool.                                       *)
(***************************************************************************)
VARIABLES
  argv,          \* the command line; argv[i + 1] is the C argv[i]
  env,           \* the process environment
  optind,        \* getopt's index of the next argument (0-based, as in C)
  optopt,        \* getopt's last offending option character, "" for 0
  pc,            \* where the parent process is
  ret,           \* main's ret, then the exit status of the parent
  stderr,        \* the diagnostics printed so far
  retrace,       \* tracer's third parameter
  exec,          \* tracer's exec[] up to the null entry
  trace_id,      \* tracer's trace_id
  trace_filename,\* tracer's trace_filename
  fsys,          \* the files: a function from names to contents
  created,       \* the names fopen(.., "w") has created or truncated
  trace_file,    \* the parent's FILE *trace_file: open or not, and its buffer
  child,         \* the forked child
  exec_result,   \* the status word wait() stores
  now,           \* the wall clock, in seconds: what time(nullptr) returns
  run,           \* 1 in the first run of the tool, 2 in the one after it
  count_total,   \* clean's count_total
  count_lines_removed, \* clean's count_lines_removed
  proot,         \* parse_toml_protocol's proot: the protocol table
  key_i,         \* parse_toml_protocol's i
  map,           \* parse_toml_protocol's map: the keymap being built
  ppc,           \* where parse_toml_protocol is
  err            \* what parse_toml_protocol has returned

\* the state of the tracer tool, and the state of the keymap parser
tool_vars ==
  << argv, env, optind, optopt, pc, ret, stderr, retrace, exec, trace_id,
     trace_filename, fsys, created, trace_file, child, exec_result, now, run,
     count_total, count_lines_removed >>
keymap_vars == << proot, key_i, map, ppc, err >>

vars == << tool_vars, keymap_vars >>

argc == Len(argv)
Arg(i) == argv[i + 1]

Closed == [open |-> FALSE, name |-> << >>, buf |-> << >>]
NoChild == [st |-> "none", calls |-> 0, code |-> 0, sig |-> 0]

\* a keymap with nothing in it (calloc, line 265)
EmptyMap ==
  [protocol |-> << >>, variant |-> << >>, name |-> << >>, param |-> << >>,
   raw |-> << >>, scancode |-> << >>]

\* the keymap parser is not run
NoKeymapRun ==
  /\ proot = << >>
  /\ key_i = 0
  /\ map = EmptyMap
  /\ ppc = "none"
  /\ err = 0

\* what a process of the tool starts with
Fresh ==
  /\ optind = 1
  /\ optopt = ""
  /\ pc = "main"
  /\ ret = -1
  /\ stderr = {}
  /\ retrace = FALSE
  /\ exec = << >>
  /\ trace_id = << >>
  /\ trace_filename = << >>
  /\ created = {}
  /\ trace_file = Closed
  /\ child = NoChild
  /\ exec_result = 0
  /\ count_total = 0
  /\ count_lines_removed = 0

Init ==
  /\ argv \in Argvs
  /\ env \in InitEnvs
  /\ fsys \in InputFiles(argv, SampleDocs)
  /\ now = StartTime
  /\ run = 1
  /\ Fresh
  /\ NoKeymapRun

\* the start of a run that is followed by a second one
InitAgain ==
  /\ argv \in AgainArgvs
  /\ env = EmptyEnv
  /\ fsys \in InputFiles(argv, CleanDocs)
  /\ now = StartTime
  /\ run = 1
  /\ Fresh
  /\ NoKeymapRun

(***************************************************************************)
(* getopt_long(argc, argv, short_options, long_options, NULL), as far as   *)
(* the command lines of Argvs use it: every option is an argument of its    *)
(* own, and no argument after the first non-option starts with a dash      *)
(* unless the command word is trace or retrace, where get_options stops    *)
(* before getopt_long sees it.                                             *)
(***************************************************************************)
NoArgOpts == {"c", "g", "h", "r", "v", "y"}
ArgOpts == {"d", "m"}
LongOpts ==
  [n \in {"compact", "video_device", "debug", "help", "media_device", "raw",
          "verbose", "yuv"} |->
     CASE n = "compact" -> "c" [] n = "video_device" -> "d" [] n = "debug" -> "g"
       [] n = "help" -> "h" [] n = "media_device" -> "m" [] n = "raw" -> "r"
       [] n = "verbose" -> "v" [] n = "yuv" -> "y"]

GetoptResult(o, i, a, e) == [option |-> o, optind |-> i, optarg |-> a, optopt |-> e]

\* The outcomes of one call.  short_options is a char array with no
\* terminating NUL (lines 36-45), so getopt_long reads past its end.  The
\* search for a character that is none of the options is either
\* unsuccessful ('?', optopt set) or successful in the bytes that follow
\* (returned as an option); and 'y', the last character of the array, takes
\* no argument or, if a colon follows the array, the next argument.
getopt_long(av, oi) ==
  LET a == av[oi + 1]
      c == a[2]
      next == oi + 1
  IN
  IF Len(a) >= 2 /\ a[1] = "-"
  THEN IF a = <<"-", "-">>
       THEN {GetoptResult("-1", next, << >>, optopt)}
       ELSE IF c = "-"
       THEN IF Len(a) = 3 /\ a[3] \in DOMAIN LongOpts
            THEN IF LongOpts[a[3]] \in NoArgOpts
                 THEN {GetoptResult(LongOpts[a[3]], next, << >>, optopt)}
                 ELSE IF next < Len(av)
                 THEN {GetoptResult(LongOpts[a[3]], next + 1, av[next + 1], optopt)}
                 ELSE {GetoptResult("?", next, << >>, LongOpts[a[3]])}
            ELSE {GetoptResult("?", next, << >>, "")}
       ELSE IF c \in NoArgOpts
       THEN {GetoptResult(c, next, << >>, optopt)}
            \cup (IF c # "y" \/ Len(a) > 2 THEN {}
                  ELSE IF next < Len(av)
                  THEN {GetoptResult(c, next + 1, av[next + 1], optopt)}
                  ELSE {GetoptResult("?", next, << >>, c)})
       ELSE IF c \in ArgOpts
       THEN IF Len(a) > 2
            THEN {GetoptResult(c, next, SubSeq(a, 3, Len(a)), optopt)}
            ELSE IF next < Len(av)
            THEN {GetoptResult(c, next + 1, av[next + 1], optopt)}
            ELSE {GetoptResult("?", next, << >>, c)}
       ELSE {GetoptResult("?", next, << >>, c), GetoptResult(c, next, << >>, optopt)}
  ELSE {GetoptResult("-1", oi, << >>, optopt)}

(***************************************************************************)
(* get_options                                                             *)
(***************************************************************************)
\* the first position of s (1-based) that holds no blank, Len(s) + 1 if none
FirstNonBlank(s) ==
  CHOOSE k \in 1..(Len(s) + 1) :
    /\ \A j \in 1..(k - 1) : s[j] = " "
    /\ k = Len(s) + 1 \/ s[k] # " "

\* std::stoi(s, nullptr, 0) throws: after the leading blanks and an optional
\* sign no digit follows.  (Out of range needs more than MaxDevLen + 1 digits.)
stoi_throws(s) ==
  LET k == FirstNonBlank(s)
      d == IF k <= Len(s) /\ s[k] \in {"+", "-"} THEN k + 1 ELSE k
  IN ~(d <= Len(s) /\ s[d] \in Digits)

\* the test of lines 77 and 104, reached when stoi did not throw
device_num_ok(device_num) ==
  device_num[1] \in Digits /\ Len(device_num) <= 3

\* the debug case without its first setenv
debug_env_only(e) == setenv0(e, "V4L2_TRACER_OPTION_DEBUG", S_true)

\* lines 89-90: the debug flag exports the verbose toggle, then the debug one
debug_env(e) ==
  setenv0(setenv0(e, "V4L2_TRACER_OPTION_VERBOSE", S_true),
          "V4L2_TRACER_OPTION_DEBUG", S_true)

\* the environment after the switch of lines 63-126
OptionEnv(e, g) ==
  CASE g.option = "c" -> setenv0(e, "V4L2_TRACER_OPTION_COMPACT_PRINT", S_true)
    [] g.option = "d" ->
         IF ~stoi_throws(g.optarg) /\ device_num_ok(g.optarg)
         THEN setenv0(e, "V4L2_TRACER_OPTION_SET_VIDEO_DEVICE", S_dev_video \o g.optarg)
         ELSE e
    [] g.option = "g" -> debug_env(e)
    [] g.option = "m" ->
         IF ~stoi_throws(g.optarg) /\ device_num_ok(g.optarg)
         THEN setenv0(e, "V4L2_TRACER_OPTION_SET_MEDIA_DEVICE", S_dev_media \o g.optarg)
         ELSE e
    [] g.option = "r" -> setenv0(e, "V4L2_TRACER_OPTION_WRITE_DECODED_TO_JSON_FILE", S_true)
    [] g.option = "v" -> setenv0(e, "V4L2_TRACER_OPTION_VERBOSE", S_true)
    [] g.option = "y" -> setenv0(e, "V4L2_TRACER_OPTION_WRITE_DECODED_TO_YUV_FILE", S_true)
    [] OTHER -> e

\* the diagnostic of a case of the switch that returns -1, "" if it breaks
OptionError(g) ==
  CASE g.option = "h" -> "usage"
    [] g.option \in ArgOpts /\ stoi_throws(g.optarg) -> "convert"
    [] g.option \in ArgOpts /\ ~stoi_throws(g.optarg) /\ ~device_num_ok(g.optarg) -> "device"
    [] OTHER -> ""

\* main, lines 360-367
Main ==
  /\ pc = "main"
  /\ IF argc <= 1
     THEN /\ stderr' = stderr \cup {"usage"}
          /\ pc' = "returned"
     ELSE /\ pc' = "get_options"
          /\ UNCHANGED stderr
  /\ UNCHANGED << argv, env, optind, optopt, ret, retrace, exec, trace_id,
                  trace_filename, fsys, created, trace_file, child, exec_result,
                  now, run, count_total,
                  count_lines_removed, keymap_vars >>

\* one turn of the loop of get_options, lines 51-136; its return value goes
\* to main's ret (line 367)
GetOptions ==
  /\ pc = "get_options"
  /\ IF optind = argc
     THEN /\ stderr' = stderr \cup {"usage"}
          /\ ret' = -1
          /\ pc' = "main_after_options"
          /\ UNCHANGED << env, optind, optopt >>
     ELSE IF Arg(optind) = S_trace \/ Arg(optind) = S_retrace
     THEN /\ ret' = 0
          /\ pc' = "main_after_options"
          /\ UNCHANGED << env, optind, optopt, stderr >>
     ELSE \E g \in getopt_long(argv, optind) :
            /\ optind' = g.optind
            /\ optopt' = g.optopt
            /\ env' = OptionEnv(env, g)
            /\ IF OptionError(g) # ""
               THEN /\ stderr' = stderr \cup {OptionError(g)}
                    /\ ret' = -1
                    /\ pc' = "main_after_options"
               ELSE IF g.optopt # ""
               THEN /\ stderr' = stderr \cup {"usage"}
                    /\ ret' = -1
                    /\ pc' = "main_after_options"
               ELSE IF g.option = "-1"
               THEN /\ ret' = 0
                    /\ pc' = "main_after_options"
                    /\ UNCHANGED stderr
               ELSE /\ pc' = "get_options"
                    /\ UNCHANGED << ret, stderr >>
  /\ UNCHANGED << argv, retrace, exec, trace_id, trace_filename, fsys, created,
                  trace_file, child, exec_result,
                  now, run, count_total,
                  count_lines_removed, keymap_vars >>

\* main after get_options, lines 369-414, up to the call of the command
MainDispatch ==
  /\ pc = "main_after_options"
  /\ IF ret < 0
     THEN /\ pc' = "returned"
          /\ UNCHANGED << optind, stderr, retrace >>
     ELSE IF optind = argc
     THEN /\ stderr' = stderr \cup {"usage"}
          /\ pc' = "returned"
          /\ UNCHANGED << optind, retrace >>
     ELSE /\ optind' = optind + 1
          /\ IF optind + 1 = argc
             THEN /\ stderr' = stderr \cup {"usage"}
                  /\ pc' = "returned"
                  /\ UNCHANGED retrace
             ELSE IF Arg(optind) = S_trace
             THEN /\ pc' = "tracer"
                  /\ retrace' = FALSE
                  /\ UNCHANGED stderr
             ELSE IF Arg(optind) = S_retrace
             THEN /\ pc' = "tracer"
                  /\ retrace' = TRUE
                  /\ UNCHANGED stderr
             ELSE IF Arg(optind) = S___retrace
             THEN /\ pc' = "call_retrace"
                  /\ UNCHANGED << stderr, retrace >>
             ELSE IF Arg(optind) = S_clean
             THEN /\ pc' = "call_clean"
                  /\ UNCHANGED << stderr, retrace >>
             ELSE /\ stderr' = stderr \cup {"usage"}
                  /\ pc' = "returned"
                  /\ UNCHANGED retrace
  /\ UNCHANGED << argv, env, optopt, ret, exec, trace_id, trace_filename, fsys,
                  created, trace_file, child, exec_result,
                  now, run, count_total,
                  count_lines_removed, keymap_vars >>

(***************************************************************************)
(* tracer: the command line of the child and the name of the document.     *)
(***************************************************************************)
\* errno.h: the errors fopen and execvpe fail with in the model
ENOENT == 2
EACCES == 13
Errnos == {ENOENT, EACCES}

\* the test of line 207 on the argument of retrace
has_json(trace_file_arg) == Find(trace_file_arg, S_json) # npos

\* the identifier without the _retrace of line 232
retrace_trace_id_bare(json_file_name) ==
  Substr(json_file_name, 0, Find(json_file_name, S_json))

\* the session identifier of a retrace, lines 230-232
retrace_trace_id(json_file_name) ==
  Substr(json_file_name, 0, Find(json_file_name, S_json)) \o S__retrace

\* the session identifier of a trace started at time t, lines 234-237
time_trace_id(t) ==
  Substr(to_string(t), timestamp_start_pos, npos) \o S__trace

\* lines 205-214
TracerCheck ==
  /\ pc = "tracer"
  /\ IF retrace /\ ~has_json(Arg(optind))
     THEN /\ stderr' = stderr \cup {"extension", "usage"}
          /\ ret' = -1
          /\ pc' = "returned"
     ELSE /\ pc' = "tracer_exec"
          /\ UNCHANGED << stderr, ret >>
  /\ UNCHANGED << argv, env, optind, optopt, retrace, exec, trace_id,
                  trace_filename, fsys, created, trace_file, child, exec_result,
                  now, run, count_total,
                  count_lines_removed, keymap_vars >>

\* the vector of a retrace that names the public command word
retrace_exec_public(av, oi) == <<av[1], S_retrace, av[oi + 1]>>

\* lines 217-220: the tool itself, the internal command word, the source
retrace_exec(av, oi) == <<av[1], S___retrace, av[oi + 1]>>

\* the vector of a trace when it starts one argument early
trace_exec_early(av, oi) == SubSeq(av, oi, Len(av))

\* lines 222-223: argv[optind], argv[optind + 1], ... up to argv[argc - 1]
trace_exec(av, oi) == SubSeq(av, oi + 1, Len(av))

\* lines 216-225.  exec has argc entries (line 200) and the null entry goes
\* to index Len(exec'); for a retrace with argc = 3 that is exec[3], outside
\* the array: the store lands in the padding behind the array and the
\* program goes on, or the process is ended.
TracerExec ==
  /\ pc = "tracer_exec"
  /\ IF retrace
     THEN /\ exec' = retrace_exec(argv, optind)
          /\ UNCHANGED optind
     ELSE /\ exec' = trace_exec(argv, optind)
          /\ optind' = argc
  /\ \/ pc' = "tracer_id"
     \/ Len(exec') >= argc /\ pc' = "aborted"
  /\ UNCHANGED << argv, env, optopt, ret, stderr, retrace, trace_id,
                  trace_filename, fsys, created, trace_file, child, exec_result,
                  now, run, count_total,
                  count_lines_removed, keymap_vars >>

\* lines 227-241
TracerId ==
  /\ pc = "tracer_id"
  /\ \E w \in Waits :
       LET id == IF retrace THEN retrace_trace_id(Arg(optind))
                 ELSE time_trace_id(now + w)
       IN /\ now' = now + w
          /\ trace_id' = id
          /\ env' = setenv0(env, "TRACE_ID", id)
          /\ trace_filename' = id \o S_json
  /\ pc' = "tracer_open"
  /\ UNCHANGED << argv, optind, optopt, ret, stderr, retrace, exec, fsys,
                  created, trace_file, child, exec_result,
                  run, count_total,
                  count_lines_removed, keymap_vars >>

(***************************************************************************)
(* Files.  A FILE is fully buffered: what is written stays in the buffer   *)
(* until the library flushes it, which it may do at any write and does at  *)
(* fclose.                                                                 *)
(***************************************************************************)
Exists(fs, name) == name \in DOMAIN fs
Content(fs, name) == IF Exists(fs, name) THEN fs[name] ELSE << >>
WithFile(fs, name, content) ==
  [n \in (DOMAIN fs) \cup {name} |-> IF n = name THEN content ELSE fs[n]]

\* fopen(name, "w"): the file is created, or truncated
fopen_w(fs, name) == WithFile(fs, name, << >>)
\* fopen(name, "a"): the file is created if it is not there
fopen_a(fs, name) == WithFile(fs, name, Content(fs, name))
\* the buffer goes to the end of the file
fflush(fs, f) == WithFile(fs, f.name, Content(fs, f.name) \o f.buf)

\* fputs / fwrite on the parent's stream; flush says whether the library
\* empties the buffer at this write
Write(text, flush) ==
  LET f == [trace_file EXCEPT !.buf = @ \o text]
  IN IF flush
     THEN /\ fsys' = fflush(fsys, f)
          /\ trace_file' = [f EXCEPT !.buf = << >>]
     ELSE /\ fsys' = fsys
          /\ trace_file' = f

\* the stream dropped without fclose: the buffer is not written out
fclose_headers_lost(fs, f) == fs

\* fclose(trace_file) of line 285: the buffer is written out
fclose_headers(fs, f) == fflush(fs, f)

\* the serialised records, each one token of the document
INFO == "tool_info"
INVOCATION == "invocation"
CALL == "call"

\* lines 242-247
TracerOpen ==
  /\ pc = "tracer_open"
  /\ \/ /\ fsys' = fopen_w(fsys, trace_filename)
        /\ created' = created \cup {trace_filename}
        /\ trace_file' = [open |-> TRUE, name |-> trace_filename, buf |-> << >>]
        /\ pc' = "write_bracket"
        /\ UNCHANGED << ret, stderr >>
     \/ /\ \E e \in Errnos : ret' = e
        /\ stderr' = stderr \cup {"open"}
        /\ pc' = "returned"
        /\ UNCHANGED << fsys, created, trace_file >>
  /\ UNCHANGED << argv, env, optind, optopt, retrace, exec, trace_id,
                  trace_filename, child, exec_result,
                  now, run, count_total,
                  count_lines_removed, keymap_vars >>

\* line 250
WriteBracket ==
  /\ pc = "write_bracket"
  /\ \E flush \in BOOLEAN : Write(<<"[", "\n">>, flush)
  /\ pc' = "write_info"
  /\ UNCHANGED << argv, env, optind, optopt, ret, stderr, retrace, exec,
                  trace_id, trace_filename, created, child, exec_result,
                  now, run, count_total,
                  count_lines_removed, keymap_vars >>

\* lines 252-268
WriteInfo ==
  /\ pc = "write_info"
  /\ \E flush \in BOOLEAN : Write(<<INFO, ",", "\n">>, flush)
  /\ pc' = "write_invocation"
  /\ UNCHANGED << argv, env, optind, optopt, ret, stderr, retrace, exec,
                  trace_id, trace_filename, created, child, exec_result,
                  now, run, count_total,
                  count_lines_removed, keymap_vars >>

\* lines 270-284
WriteInvocation ==
  /\ pc = "write_invocation"
  /\ \E flush \in BOOLEAN : Write(<<INVOCATION, ",", "\n">>, flush)
  /\ pc' = "fclose"
  /\ UNCHANGED << argv, env, optind, optopt, ret, stderr, retrace, exec,
                  trace_id, trace_filename, created, child, exec_result,
                  now, run, count_total,
                  count_lines_removed, keymap_vars >>

\* line 285
CloseHeaders ==
  /\ pc = "fclose"
  /\ fsys' = fclose_headers(fsys, trace_file)
  /\ trace_file' = Closed
  /\ pc' = "preload"
  /\ UNCHANGED << argv, env, optind, optopt, ret, stderr, retrace, exec,
                  trace_id, trace_filename, created, child, exec_result,
                  now, run, count_total,
                  count_lines_removed, keymap_vars >>

(***************************************************************************)
(* tracer: the child.                                                      *)
(***************************************************************************)
\* lines 292-305: where the shim is looked for
libv4l2tracer_path(program, dir_exists) ==
  LET idx == RFind(program, S_v4l2_tracer)
      local == SubSeq(program, 1, idx + 1) \o S_libs
  IN (IF idx # npos
      THEN IF dir_exists THEN local ELSE SubSeq(local, 1, idx) \o S_dot_libs
      ELSE LIBTRACER_PATH) \o S_libv4l2tracer_so

\* lines 287-308
Preload ==
  /\ pc = "preload"
  /\ \E dir_exists \in BOOLEAN :
       env' = setenv0(env, "LD_PRELOAD", libv4l2tracer_path(Arg(0), dir_exists))
  /\ pc' = "fork"
  /\ UNCHANGED << argv, optind, optopt, ret, stderr, retrace, exec, trace_id,
                  trace_filename, fsys, created, trace_file, child, exec_result,
                  now, run, count_total,
                  count_lines_removed, keymap_vars >>

\* sys/wait.h: the status word of a child that exited with code, or that
\* signal sig ended
W_EXITCODE(code, sig) == code * 256 + sig
\* the low byte taken for the exit code
WEXITSTATUS_low(status) == status % 256

WEXITSTATUS(status) == (status \div 256) % 256

ExitCodes == {0, 1}
SIGKILL == 9

\* line 310: fork() makes the child, or fails and returns -1
Fork ==
  /\ pc = "fork"
  /\ \/ child' = [st |-> "forked", calls |-> 0, code |-> 0, sig |-> 0]
     \/ child' = child
  /\ pc' = "wait"
  /\ UNCHANGED << argv, env, optind, optopt, ret, stderr, retrace, exec,
                  trace_id, trace_filename, fsys, created, trace_file, exec_result,
                  now, run, count_total,
                  count_lines_removed, keymap_vars >>

\* what the child that could not exec leaves in the files: it returns from
\* tracer (line 325) and from main, and the exit flushes its copy of every
\* stream that is still open
exec_failed_files(fs, f) == IF f.open THEN fflush(fs, f) ELSE fs

\* lines 312-325, in the child: execvpe replaces the program, or fails and
\* the child returns errno from tracer and from main
ChildExec ==
  /\ child.st = "forked"
  /\ \/ /\ child' = [child EXCEPT !.st = "running"]
        /\ UNCHANGED << stderr, fsys >>
     \/ /\ \E e \in Errnos :
             child' = [child EXCEPT !.st = "exited", !.code = e % 256]
        /\ stderr' = stderr \cup {"exec"}
        /\ fsys' = exec_failed_files(fsys, trace_file)
  /\ UNCHANGED << argv, env, optind, optopt, pc, ret, retrace, exec, trace_id,
                  trace_filename, created, trace_file, exec_result,
                  now, run, count_total,
                  count_lines_removed, keymap_vars >>

\* the file the shim in the child appends to
ShimFile == env["TRACE_ID"].val \o S_json

\* the shim records one intercepted call of the traced program
ShimAppend ==
  /\ child.st = "running"
  /\ child.calls < MaxCalls
  /\ child' = [child EXCEPT !.calls = @ + 1]
  /\ fsys' = WithFile(fsys, ShimFile, Content(fsys, ShimFile) \o <<CALL, ",", "\n">>)
  /\ UNCHANGED << argv, env, optind, optopt, pc, ret, stderr, retrace, exec,
                  trace_id, trace_filename, created, trace_file, exec_result,
                  now, run, count_total,
                  count_lines_removed, keymap_vars >>

\* the traced program ends
ChildExit ==
  /\ child.st = "running"
  /\ \E code \in ExitCodes :
       child' = [child EXCEPT !.st = "exited", !.code = code]
  /\ UNCHANGED << argv, env, optind, optopt, pc, ret, stderr, retrace, exec,
                  trace_id, trace_filename, fsys, created, trace_file, exec_result,
                  now, run, count_total,
                  count_lines_removed, keymap_vars >>

\* a signal ends the child
ChildKilled ==
  /\ child.st \in {"forked", "running"}
  /\ child' = [child EXCEPT !.st = "exited", !.sig = SIGKILL]
  /\ UNCHANGED << argv, env, optind, optopt, pc, ret, stderr, retrace, exec,
                  trace_id, trace_filename, fsys, created, trace_file, exec_result,
                  now, run, count_total,
                  count_lines_removed, keymap_vars >>

(***************************************************************************)
(* tracer: the parent after fork.                                          *)
(***************************************************************************)
\* a wait that does not block (WNOHANG)
wait_returns_nohang(c) == TRUE

\* wait(&exec_result) returns: a child has ended, or there is none (-1)
wait_returns(c) == c.st = "exited" \/ c.st = "none"

\* lines 328-329
Wait ==
  /\ pc = "wait"
  /\ wait_returns(child)
  /\ exec_result' = IF child.st = "none" THEN 0 ELSE W_EXITCODE(child.code, child.sig)
  /\ pc' = "classify"
  /\ UNCHANGED << argv, env, optind, optopt, ret, stderr, retrace, exec,
                  trace_id, trace_filename, fsys, created, trace_file, child,
                  now, run, count_total,
                  count_lines_removed, keymap_vars >>

\* the test of line 331
child_failed(status) == WEXITSTATUS(status) # 0

\* the error path with the closing bracket forgotten
error_close_text_none == << >>

\* what lines 334-336 put into the stream on the error path
error_close_text == <<"\n", "]", "\n">>
\* what lines 343-345 put into the stream
close_text == <<"\n", "]", "\n">>

\* lines 331-336, or 331 and 342-345: the file is opened again to append
Classify ==
  /\ pc = "classify"
  /\ fsys' = fopen_a(fsys, trace_filename)
  /\ IF child_failed(exec_result)
     THEN /\ stderr' = stderr \cup {"trace_error"}
          /\ trace_file' =
               [open |-> TRUE, name |-> trace_filename, buf |-> error_close_text]
          /\ pc' = "error_fclose"
     ELSE /\ trace_file' = [open |-> TRUE, name |-> trace_filename, buf |-> close_text]
          /\ pc' = "final_fclose"
          /\ UNCHANGED stderr
  /\ UNCHANGED << argv, env, optind, optopt, ret, retrace, exec, trace_id,
                  trace_filename, created, child, exec_result,
                  now, run, count_total,
                  count_lines_removed, keymap_vars >>

\* lines 337-339
ErrorExit ==
  /\ pc = "error_fclose"
  /\ fsys' = fflush(fsys, trace_file)
  /\ trace_file' = Closed
  /\ ret' = EXIT_FAILURE
  /\ pc' = "exited"
  /\ UNCHANGED << argv, env, optind, optopt, stderr, retrace, exec, trace_id,
                  trace_filename, created, child, exec_result,
                  now, run, count_total,
                  count_lines_removed, keymap_vars >>

\* lines 346-355
Complete ==
  /\ pc = "final_fclose"
  /\ fsys' = fflush(fsys, trace_file)
  /\ trace_file' = Closed
  /\ stderr' = stderr \cup {"complete"}
  /\ ret' = 0
  /\ pc' = "returned"
  /\ UNCHANGED << argv, env, optind, optopt, retrace, exec, trace_id,
                  trace_filename, created, child, exec_result,
                  now, run, count_total,
                  count_lines_removed, keymap_vars >>

(***************************************************************************)
(* The other commands of main.                                             *)
(***************************************************************************)
\* line 400: retrace() replays the document and returns its status
CallRetrace ==
  /\ pc = "call_retrace"
  /\ \E r \in {0, 1} : ret' = r
  /\ pc' = "returned"
  /\ UNCHANGED << argv, env, optind, optopt, stderr, retrace, exec, trace_id,
                  trace_filename, fsys, created, trace_file, child, exec_result,
                  now, run, count_total,
                  count_lines_removed, keymap_vars >>

\* the markers of lines 166-185
Markers ==
  { <<"f", "d">>, <<"a", "d", "d", "r", "e", "s", "s">>, <<"f", "i", "l", "d", "e", "s">>,
    <<"\"", "s", "t", "a", "r", "t", "\"">>, <<"\"", "n", "a", "m", "e", "\"">> }

\* fgets(buf, SHRT_MAX, f) on what is left of the file: the bytes up to and
\* with the first newline, SHRT_MAX - 1 bytes at most
fgets(rest) ==
  LET n == IF Len(rest) < SHRT_MAX - 1 THEN Len(rest) ELSE SHRT_MAX - 1
      nl == {i \in 1..n : rest[i] = "\n"}
  IN IF nl = {} THEN SubSeq(rest, 1, n)
     ELSE SubSeq(rest, 1, CHOOSE i \in nl : \A j \in nl : i <= j)

\* the buffers the loop of line 163 sees, one after the other
RECURSIVE fgets_all(_)
fgets_all(rest) ==
  IF rest = << >> THEN << >>
  ELSE LET buf == fgets(rest)
       IN <<buf>> \o fgets_all(SubSeq(rest, Len(buf) + 1, Len(rest)))

\* the C string in buf: the bytes before the first NUL (line = buf, line
\* 164, and what fputs(buf, ..) writes)
c_str(buf) ==
  LET z == {i \in 1..Len(buf) : buf[i] = NUL}
  IN IF z = {} THEN buf ELSE SubSeq(buf, 1, (CHOOSE i \in z : \A j \in z : i <= j) - 1)

\* lines 164-185: the line holds one of the markers
line_removed(buf) == \E mk \in Markers : Find(c_str(buf), mk) # npos
line_kept(buf) == ~line_removed(buf)

\* a write that leaves out the newline at the end of the line
fputs_chomped(buf) ==
  IF c_str(buf) # << >> /\ c_str(buf)[Len(c_str(buf))] = "\n"
  THEN SubSeq(c_str(buf), 1, Len(c_str(buf)) - 1)
  ELSE c_str(buf)

\* line 187: fputs(buf, clean_file)
fputs(buf) == c_str(buf)

\* what the loop of lines 163-188 writes for these buffers
RECURSIVE written(_)
written(bufs) ==
  IF bufs = << >> THEN << >>
  ELSE (IF line_kept(Head(bufs)) THEN fputs(Head(bufs)) ELSE << >>)
       \o written(Tail(bufs))

\* line 402 and clean, lines 139-196: one of the two files cannot be
\* opened, or the document is read and the lines that are kept are written
CallClean ==
  /\ pc = "call_clean"
  /\ \/ /\ stderr' = stderr \cup {"cannot_open"}
        /\ ret' = 1
        /\ UNCHANGED << fsys, created, count_total, count_lines_removed >>
     \/ /\ Exists(fsys, Arg(optind))
        /\ LET bufs == fgets_all(fsys[Arg(optind)])
           IN /\ fsys' = WithFile(fsys, S_clean_ \o Arg(optind), written(bufs))
              /\ count_total' = Len(bufs)
              /\ count_lines_removed' =
                   Cardinality({i \in DOMAIN bufs : line_removed(bufs[i])})
        /\ created' = created \cup {S_clean_ \o Arg(optind)}
        /\ stderr' = stderr \cup {"cleaning", "removed"}
        /\ ret' = 0
  /\ pc' = "returned"
  /\ UNCHANGED << argv, env, optind, optopt, retrace, exec, trace_id,
                  trace_filename, trace_file, child, exec_result, now, run, keymap_vars >>

(***************************************************************************)
(* A second run of the tool, after the first has ended: the same command   *)
(* again, or clean on what the first clean has written.  The files stay,   *)
(* the clock has moved on.                                                 *)
(***************************************************************************)
Rerun ==
  /\ pc \in {"returned", "exited"}
  /\ run = 1
  /\ run' = 2
  /\ argv' = IF argv[2] = S_clean
             THEN <<argv[1], S_clean, S_clean_ \o argv[3]>>
             ELSE argv
  /\ \E d \in Elapsed : now' = now + d
  /\ env' = EmptyEnv
  /\ optind' = 1
  /\ optopt' = ""
  /\ pc' = "main"
  /\ ret' = -1
  /\ stderr' = {}
  /\ retrace' = FALSE
  /\ exec' = << >>
  /\ trace_id' = << >>
  /\ trace_filename' = << >>
  /\ created' = {}
  /\ trace_file' = Closed
  /\ child' = NoChild
  /\ exec_result' = 0
  /\ count_total' = 0
  /\ count_lines_removed' = 0
  /\ UNCHANGED << fsys, keymap_vars >>

(***************************************************************************)
(* The specification.                                                      *)
(***************************************************************************)
Next ==
  \/ Main
  \/ GetOptions
  \/ MainDispatch
  \/ TracerCheck
  \/ TracerExec
  \/ TracerId
  \/ TracerOpen
  \/ WriteBracket
  \/ WriteInfo
  \/ WriteInvocation
  \/ CloseHeaders
  \/ Preload
  \/ Fork
  \/ ChildExec
  \/ ShimAppend
  \/ ChildExit
  \/ ChildKilled
  \/ Wait
  \/ Classify
  \/ ErrorExit
  \/ Complete
  \/ CallRetrace
  \/ CallClean

Spec == Init /\ [][Next]_vars

NextAgain ==
  \/ Next
  \/ Rerun

SpecAgain == InitAgain /\ [][NextAgain]_vars

(***************************************************************************)
(* The keymap parser: parse_toml_protocol on one protocol table.           *)
(*                                                                         *)
(* A TOML table is the sequence of its entries in the order toml_key_in    *)
(* counts them: the key-values, then the arrays, then the tables.  An      *)
(* entry has its key, its type and, by type, the raw text of the value,    *)
(* the raw texts of an array of values, or the tables of an array of       *)
(* tables or the one table of a sub-table.                                 *)
(***************************************************************************)
\* errno.h
EINVAL == 22
ENOMEM == 12

\* the raw text of a string and of an integer, as they stand in the file
Quote == "\""
RawStr(s) == <<Quote>> \o s \o <<Quote>>
RawInt(n) == to_string(n)

\* the null pointer of a key, a raw text; no key and no raw text is empty
NULL == << >>

KV(k, raw_value) ==
  [key |-> k, type |-> "kv", raw |-> raw_value, vals |-> << >>, tabs |-> << >>]
Arr(k, raw_values) ==
  [key |-> k, type |-> "arr", raw |-> NULL, vals |-> raw_values, tabs |-> << >>]
TabArr(k, ts) ==
  [key |-> k, type |-> "arr", raw |-> NULL, vals |-> << >>, tabs |-> ts]
Tab(k, t) ==
  [key |-> k, type |-> "tab", raw |-> NULL, vals |-> << >>, tabs |-> <<t>>]

\* toml_key_in(tab, keyidx): the key of entry keyidx (0-based), or NULL
toml_key_in(tab, keyidx) ==
  IF keyidx >= 0 /\ keyidx < Len(tab) THEN tab[keyidx + 1].key ELSE NULL

\* the entries of tab with this key and type
Entries(tab, k, type) == {n \in DOMAIN tab : tab[n].key = k /\ tab[n].type = type}

\* toml_raw_in(tab, key): the raw text of a key-value, or NULL
toml_raw_in(tab, k) ==
  IF Entries(tab, k, "kv") = {} THEN NULL
  ELSE tab[CHOOSE n \in Entries(tab, k, "kv") : TRUE].raw

\* toml_array_in: whether there is an array with this key, and what is in it
toml_array_in(tab, k) ==
  IF Entries(tab, k, "arr") = {} THEN [found |-> FALSE, vals |-> << >>, tabs |-> << >>]
  ELSE LET e == tab[CHOOSE n \in Entries(tab, k, "arr") : TRUE]
       IN [found |-> TRUE, vals |-> e.vals, tabs |-> e.tabs]

\* toml_table_in: whether there is a table with this key, and which
toml_table_in(tab, k) ==
  IF Entries(tab, k, "tab") = {} THEN [found |-> FALSE, val |-> << >>]
  ELSE [found |-> TRUE, val |-> tab[CHOOSE n \in Entries(tab, k, "tab") : TRUE].tabs[1]]

\* toml_rtos(raw, &ret): 0 and the text between the quotes if the raw text
\* is a quoted string, -1 if not (the null pointer included)
toml_rtos(raw_value) ==
  IF Len(raw_value) >= 2 /\ Head(raw_value) = Quote /\ raw_value[Len(raw_value)] = Quote
  THEN [ret |-> 0, val |-> SubSeq(raw_value, 2, Len(raw_value) - 1)]
  ELSE [ret |-> -1, val |-> << >>]

\* strtoul(s, NULL, 0): the base from the prefix, then the digits of that
\* base as far as they go
HexDigits == <<"0", "1", "2", "3", "4", "5", "6", "7", "8", "9",
               "a", "b", "c", "d", "e", "f">>
DigitValue(c) == (CHOOSE n \in DOMAIN HexDigits : HexDigits[n] = c) - 1
IsDigit(c, base) ==
  /\ \E n \in DOMAIN HexDigits : HexDigits[n] = c
  /\ DigitValue(c) < base

RECURSIVE strtoul_digits(_, _, _)
strtoul_digits(s, base, acc) ==
  IF s = << >> \/ ~IsDigit(Head(s), base) THEN acc
  ELSE strtoul_digits(Tail(s), base, acc * base + DigitValue(Head(s)))

strtoul(s) ==
  IF Len(s) >= 3 /\ s[1] = "0" /\ s[2] = "x" /\ IsDigit(s[3], 16)
  THEN strtoul_digits(SubSeq(s, 3, Len(s)), 16, 0)
  ELSE IF Len(s) >= 1 /\ s[1] = "0"
  THEN strtoul_digits(s, 8, 0)
  ELSE strtoul_digits(s, 10, 0)

\* toml_rtoi(raw, &ret): 0 and the number if the raw text is all decimal
\* digits, -1 if not (the null pointer included)
toml_rtoi(raw_value) ==
  IF raw_value # NULL /\ \A n \in DOMAIN raw_value : IsDigit(raw_value[n], 10)
  THEN [ret |-> 0, val |-> strtoul_digits(raw_value, 10, 0)]
  ELSE [ret |-> -1, val |-> 0]

\* limits.h
USHRT_MAX == 65535

\* the protocol tables the parser is given.  The key-values: protocol (a
\* string, raw or not, an integer, or none), variant (none, an integer, or
\* a string, then with a name) and up to MaxParams integer parameters
ProtocolKVs ==
  { << >>, <<KV(<<"protocol">>, RawStr(<<"nec">>))>>,
    <<KV(<<"protocol">>, RawStr(<<"raw">>))>>, <<KV(<<"protocol">>, RawInt(1))>> }
VariantKVs ==
  { << >>, <<KV(<<"variant">>, RawInt(32))>>,
    <<KV(<<"variant">>, RawStr(<<"nec32">>)), KV(<<"name">>, RawStr(<<"rc">>))>> }
ParamKVs(k) == [n \in 1..k |-> KV(<<"param", DigitOf(n)>>, RawInt(n))]

\* one entry of a [[protocols.raw]] array with this many raw values
RawEntry(length) ==
  << KV(<<"keycode">>, RawStr(<<"KEY_A">>)),
     Arr(<<"raw">>, [n \in 1..length |-> RawInt(500 + n)]) >>

\* no raw array, one with a good entry, one whose entry has an even length
RawArrays ==
  { << >>, <<TabArr(<<"raw">>, <<RawEntry(3)>>)>>, <<TabArr(<<"raw">>, <<RawEntry(2)>>)>> }

\* the key and the keycode of entry n of a scancodes table
ScancodeKey(n) == <<"0", "x", "1", DigitOf(n)>>
Keycode(n) == <<"KEY_", DigitOf(n)>>

\* a scancodes table of k entries; the last one is a string like the
\* others, an integer, or a table
ScancodeTables ==
  { [n \in 1..k |-> KV(ScancodeKey(n), RawStr(Keycode(n)))] : k \in 0..MaxScancodes }
  \cup { [n \in 1..k |->
            IF n < k THEN KV(ScancodeKey(n), RawStr(Keycode(n)))
            ELSE KV(ScancodeKey(n), RawInt(n))] : k \in 1..MaxScancodes }
  \cup { [n \in 1..k |->
            IF n < k THEN KV(ScancodeKey(n), RawStr(Keycode(n)))
            ELSE Tab(ScancodeKey(n), << >>)] : k \in 1..MaxScancodes }

ScancodeTabs == { << >> } \cup { <<Tab(<<"scancodes">>, t)>> : t \in ScancodeTables }

ProtocolTables ==
  { p \o v \o ParamKVs(k) \o a \o s :
      p \in ProtocolKVs, v \in VariantKVs, k \in 0..MaxParams,
      a \in RawArrays, s \in ScancodeTabs }

\* parse_toml_raw_part, lines 179-253, on the tables of the array that are
\* left: the error it returns and the keymap it leaves.  (The calloc of
\* line 220 is taken to succeed.)
RECURSIVE parse_toml_raw_part(_, _)
parse_toml_raw_part(raw_entries, mp) ==
  IF raw_entries = << >> THEN [err |-> 0, map |-> mp]
  ELSE LET t == Head(raw_entries)
           rkeycode == toml_raw_in(t, <<"keycode">>)
           rawarray == toml_array_in(t, <<"raw">>)
           length == Len(rawarray.vals)
           v(n) == toml_rtoi(rawarray.vals[n])
           bad(n) == v(n).ret # 0 \/ v(n).val = 0 \/ v(n).val <= 0 \/ v(n).val > USHRT_MAX
           re == [keycode |-> toml_rtos(rkeycode).val, raw_length |-> length,
                  raw |-> [n \in 1..length |-> v(n).val]]
       IN IF rkeycode = NULL THEN [err |-> EINVAL, map |-> mp]
          ELSE IF toml_rtos(rkeycode).ret # 0 THEN [err |-> EINVAL, map |-> mp]
          ELSE IF ~rawarray.found THEN [err |-> EINVAL, map |-> mp]
          ELSE IF length % 2 = 0 THEN [err |-> EINVAL, map |-> mp]
          ELSE IF \E n \in 1..length : bad(n)
          THEN [err |-> EINVAL, map |-> mp]
          ELSE parse_toml_raw_part(Tail(raw_entries),
                                   [mp EXCEPT !.raw = <<re>> \o mp.raw])

\* parse_toml_protocol from line 272 to line 331: the error and the keymap
\* if it returns there, or the keymap it goes into the loops with
protocol_head(pr) ==
  LET protocol == toml_rtos(toml_raw_in(pr, <<"protocol">>))
      variant == toml_rtos(toml_raw_in(pr, <<"variant">>))
      name == toml_rtos(toml_raw_in(pr, <<"name">>))
      rawarray == toml_array_in(pr, <<"raw">>)
      have_raw_protocol == protocol.val = <<"raw">>
      m1 == [EmptyMap EXCEPT !.protocol = protocol.val]
      m2 == IF toml_raw_in(pr, <<"variant">>) # NULL
            THEN [m1 EXCEPT !.variant = variant.val] ELSE m1
      m3 == IF toml_raw_in(pr, <<"name">>) # NULL
            THEN [m2 EXCEPT !.name = name.val] ELSE m2
      rp == parse_toml_raw_part(rawarray.tabs, m3)
      Return(e, mp) == [done |-> TRUE, err |-> e, map |-> mp]
      Scancodes(mp) ==
        IF ~toml_table_in(pr, <<"scancodes">>).found THEN Return(0, mp)
        ELSE [done |-> FALSE, err |-> 0, map |-> mp]
  IN IF toml_raw_in(pr, <<"protocol">>) = NULL THEN Return(EINVAL, EmptyMap)
     ELSE IF protocol.ret # 0 THEN Return(EINVAL, EmptyMap)
     ELSE IF toml_raw_in(pr, <<"variant">>) # NULL /\ variant.ret # 0
     THEN Return(EINVAL, m1)
     ELSE IF toml_raw_in(pr, <<"name">>) # NULL /\ name.ret # 0
     THEN Return(EINVAL, m2)
     ELSE IF rawarray.found
     THEN IF toml_raw_in(pr, <<"scancodes">>) # NULL THEN Return(EINVAL, m3)
          ELSE IF ~have_raw_protocol THEN Return(EINVAL, m3)
          ELSE IF rp.err # 0 THEN Return(rp.err, rp.map)
          ELSE Scancodes(rp.map)
     ELSE IF have_raw_protocol THEN Return(EINVAL, m3)
     ELSE Scancodes(m3)

(***************************************************************************)
(* parse_toml_protocol, step by step.                                      *)
(***************************************************************************)
\* lines 257-331: calloc fails, or the head of the table is read
ParseProtocolHead ==
  /\ ppc = "start"
  /\ \/ /\ map' = EmptyMap
        /\ err' = ENOMEM
        /\ ppc' = "returned"
     \/ LET h == protocol_head(proot)
        IN /\ map' = h.map
           /\ err' = h.err
           /\ ppc' = IF h.done THEN "returned" ELSE "params"
  /\ key_i' = 0
  /\ UNCHANGED << proot, tool_vars >>

\* one turn of the loop of lines 333-348, or its end.  (The malloc of line
\* 340 is not tested by the code and is taken to succeed.)
ParamLoop ==
  /\ ppc = "params"
  /\ LET key == toml_key_in(proot, key_i)
         raw_value == toml_raw_in(proot, key)
     IN IF key = NULL
        THEN /\ ppc' = "scancodes"
             /\ UNCHANGED << key_i, map >>
        ELSE /\ map' = IF toml_rtoi(raw_value).ret = 0
                       THEN [map EXCEPT
                               !.param = <<[name |-> key,
                                            value |-> toml_rtoi(raw_value).val]>> \o @]
                       ELSE map
             /\ key_i' = key_i + 1
             /\ UNCHANGED ppc
  /\ UNCHANGED << proot, err, tool_vars >>

\* one turn of the loop of lines 350-380: i is read and stepped at line 355
ScancodeLoop ==
  /\ ppc = "scancodes"
  /\ LET scancodes == toml_table_in(proot, <<"scancodes">>).val
         scancode == toml_key_in(scancodes, key_i)
         raw_value == toml_raw_in(scancodes, scancode)
         keycode == toml_rtos(raw_value)
         se == [scancode |-> strtoul(scancode), keycode |-> keycode.val]
     IN /\ key_i' = key_i + 1
        /\ IF scancode = NULL
           THEN /\ err' = 0
                /\ ppc' = "returned"
                /\ UNCHANGED map
           ELSE IF raw_value = NULL \/ keycode.ret # 0
           THEN /\ err' = EINVAL
                /\ ppc' = "returned"
                /\ UNCHANGED map
           ELSE \/ /\ err' = ENOMEM
                   /\ ppc' = "returned"
                   /\ UNCHANGED map
                \/ /\ map' = [map EXCEPT !.scancode = <<se>> \o @]
                   /\ UNCHANGED << err, ppc >>
  /\ UNCHANGED << proot, tool_vars >>

\* parse_toml_protocol is called on a protocol table
InitKeymap ==
  /\ argv = << >>
  /\ env = EmptyEnv
  /\ fsys = << >>
  /\ now = StartTime
  /\ run = 1
  /\ Fresh
  /\ proot \in ProtocolTables
  /\ key_i = 0
  /\ map = EmptyMap
  /\ ppc = "start"
  /\ err = 0

NextKeymap ==
  \/ ParseProtocolHead
  \/ ParamLoop
  \/ ScancodeLoop

SpecKeymap == InitKeymap /\ [][NextKeymap]_vars

(***************************************************************************)
(* Properties.                                                             *)
(***************************************************************************)
Done == pc \in {"returned", "exited"}

\* the document of the session: the file tracer created
Doc == Content(fsys, trace_filename)
DocCreated == trace_filename \in created

Count(seq, tok) == Cardinality({i \in DOMAIN seq : seq[i] = tok})
IsPrefix(p, s) == Len(p) <= Len(s) /\ SubSeq(s, 1, Len(p)) = p
EndsWith(s, suffix) ==
  Len(suffix) <= Len(s) /\ SubSeq(s, Len(s) - Len(suffix) + 1, Len(s)) = suffix

\* the tokens of a document that are not white space
NotNewline(tok) == tok # "\n"
Elements(doc) == SelectSeq(doc, NotNewline)

\* what tracer writes before it forks
Headers == <<"[", "\n", INFO, ",", "\n", INVOCATION, ",", "\n">>

\* C1: once tracer has created its document, the closing bracket is in it at
\* most once at any time, and exactly once, as its last token, when the parent
\* process has ended: after a child that exited with 0, with another code,
\* was killed, could not exec, or was never forked.
C1_ClosedExactlyOnce ==
  DocCreated =>
    /\ Count(Doc, "]") <= 1
    /\ Done =>
         /\ Count(Doc, "]") = 1
         /\ Elements(Doc)[Len(Elements(Doc))] = "]"

\* the parent has ended after a child whose exec failed, the document closed
C1_Witness ==
  /\ pc = "exited"
  /\ DocCreated
  /\ "exec" \in stderr
  /\ child.st = "exited"
  /\ Count(Doc, "]") = 1

\* a JSON array in tokens: the brackets around records with one separator
\* between each two of them
ValidJsonArray(e) ==
  /\ Len(e) >= 2
  /\ e[1] = "["
  /\ e[Len(e)] = "]"
  /\ LET m == SubSeq(e, 2, Len(e) - 1)
     IN \/ m = << >>
        \/ /\ Len(m) % 2 = 1
           /\ \A i \in DOMAIN m :
                IF i % 2 = 1 THEN m[i] \in {INFO, INVOCATION, CALL} ELSE m[i] = ","

\* C2: when a trace has completed, the document is a syntactically valid
\* JSON array whose first element is the tool-info record and whose second
\* element is the invocation record; no separator stands before the closing
\* bracket.
C2_ValidJsonAfterTrace ==
  (pc = "returned" /\ ~retrace /\ "complete" \in stderr
     /\ child.st = "exited" /\ child.code = 0 /\ child.sig = 0) =>
    /\ ValidJsonArray(Elements(Doc))
    /\ Elements(Doc)[2] = INFO
    /\ Elements(Doc)[4] = INVOCATION

\* C3: whenever tracer is past the fclose of line 285, so at the fork and at
\* every step of the child, the stream is closed with nothing left in its
\* buffer and the document starts with the bracket and the two headers in
\* order; every call record in the document stands after them.
C3_HeadersBeforeFork ==
  /\ (DocCreated /\ pc \notin {"write_bracket", "write_info", "write_invocation", "fclose"}) =>
       IsPrefix(Headers, Doc)
  /\ pc \in {"preload", "fork"} => (~trace_file.open /\ trace_file.buf = << >>)
  /\ child.st # "none" => IsPrefix(Headers, Doc)
  /\ \A i \in DOMAIN Doc : Doc[i] = CALL => i > Len(Headers)

\* the shim has put a call record into the document, behind the headers
C3_Witness ==
  /\ child.st = "running"
  /\ child.calls > 0
  /\ Count(Doc, CALL) > 0
  /\ IsPrefix(Headers, Doc)

\* C4: the parent has its stream on the document open, the only way it
\* writes, only while no child is alive: before the fork, or after the child
\* has ended (or when none was made).
C4_NoConcurrentWriters ==
  /\ trace_file.open => child.st \in {"none", "exited"}
  /\ child.st \in {"forked", "running"} => pc = "wait"

\* the parent appends the closing bracket after a child that wrote records
C4_Witness ==
  /\ trace_file.open
  /\ trace_file.buf = close_text
  /\ child.st = "exited"
  /\ Count(Doc, CALL) > 0

\* C5: when the parent has ended after a child that exited with a non-zero
\* code (the errno of a failed exec included), it has called exit with
\* EXIT_FAILURE; after a child that exited with 0 it has returned 0; in both
\* cases the document was closed before.
C5_OutcomeClassification ==
  (Done /\ child.st = "exited" /\ child.sig = 0) =>
    /\ Count(Doc, "]") = 1
    /\ IF child.code # 0
       THEN pc = "exited" /\ ret = EXIT_FAILURE /\ "trace_error" \in stderr
       ELSE pc = "returned" /\ ret = 0 /\ "complete" \in stderr

\* the parent has exited with EXIT_FAILURE after the traced program failed
C5_Witness ==
  /\ pc = "exited"
  /\ ret = EXIT_FAILURE
  /\ child.st = "exited"
  /\ child.code = 1
  /\ "exec" \notin stderr
  /\ Count(Doc, "]") = 1

\* the diagnostics of a usage error
UsageErrors == {"usage", "convert", "device", "extension"}

\* C6: a run that ends after a usage error (no argument, no command after
\* the flags, a command word with no argument, an unknown command word, an
\* invalid flag, an invalid device number, a retrace of a file without the
\* extension) ends with a status that is not 0 and has created no file.
C6_UsageErrorsFail ==
  (Done /\ stderr \cap UsageErrors # {}) => (ret # 0 /\ created = {})

PurelyNumeric(s) == \A i \in DOMAIN s : s[i] \in Digits

\* the first flag is -d or -m, its argument is there and has been handled
DeviceFlagHandled ==
  /\ Len(argv) >= 3
  /\ argv[2] \in {<<"-", "d">>, <<"-", "m">>}
  /\ pc # "main"
  /\ ~(pc = "get_options" /\ optind = 1)

DeviceVar ==
  IF argv[2] = <<"-", "d">>
  THEN "V4L2_TRACER_OPTION_SET_VIDEO_DEVICE"
  ELSE "V4L2_TRACER_OPTION_SET_MEDIA_DEVICE"

DevicePrefix == IF argv[2] = <<"-", "d">> THEN S_dev_video ELSE S_dev_media

\* C7: the argument of -d / -m is accepted exactly when it is one to three
\* decimal digits and nothing else; then the variable holds /dev/video<N>
\* (/dev/media<N>); any other argument makes get_options return -1 with no
\* file and no child made.
C7_DeviceValidation ==
  DeviceFlagHandled =>
    IF PurelyNumeric(argv[3]) /\ Len(argv[3]) \in 1..3
    THEN /\ env[DeviceVar] = [set |-> TRUE, val |-> DevicePrefix \o argv[3]]
         /\ stderr \cap {"convert", "device"} = {}
    ELSE /\ stderr \cap {"convert", "device"} # {}
         /\ ret = -1
         /\ created = {}
         /\ child.st = "none"

\* tracer runs for a retrace (the dispatch of line 394 has happened)
InRetrace == retrace /\ pc \notin {"main", "get_options", "main_after_options"}

\* C8: a retrace of a path that does not end in .json makes no file and no
\* child, and ends with -1 after printing the usage.
C8_RetraceNeedsJsonSuffix ==
  (InRetrace /\ ~EndsWith(Arg(optind), S_json)) =>
    /\ created = {}
    /\ child.st = "none"
    /\ Done => (ret = -1 /\ "usage" \in stderr)

StripSuffix(s, suffix) == SubSeq(s, 1, Len(s) - Len(suffix))

\* C9: in a retrace of a source S that ends in .json the identifier is S
\* without that suffix, followed by _retrace, and the document is that
\* identifier followed by .json.
C9_RetraceIdFromSource ==
  (InRetrace /\ trace_filename # << >> /\ EndsWith(Arg(optind), S_json)) =>
    /\ trace_id = StripSuffix(Arg(optind), S_json) \o S__retrace
    /\ trace_filename = trace_id \o S_json

\* C10: a retrace never opens its source for writing: the name of the
\* document differs from the source path.
C10_RetraceKeepsSource ==
  InRetrace =>
    /\ Arg(optind) \notin created
    /\ trace_filename # << >> => trace_filename # Arg(optind)

\* a retrace of a source that ends in .json has created its document
C10_Witness ==
  /\ InRetrace
  /\ EndsWith(Arg(optind), S_json)
  /\ created = {trace_filename}
  /\ Exists(fsys, trace_filename)

(***************************************************************************)
(* C11: a variable the tool exports that is present in the environment     *)
(* keeps its value through get_options and tracer, whatever the flags; the *)
(* tool only adds the variables that are absent.                           *)
(***************************************************************************)
C11_SetIfAbsent ==
  [][\A v \in EnvVars : env[v].set => env'[v] = env[v]]_vars

\* tracer has come to the wait with a session identifier of its own while
\* the TRACE_ID and the LD_PRELOAD it was started with are still there
C11_Witness ==
  /\ pc = "wait"
  /\ trace_id # << >> /\ trace_id # <<"outer">>
  /\ env["TRACE_ID"] = Preset
  /\ env["LD_PRELOAD"] = Preset

(***************************************************************************)
(* C12: in a trace the vector the child executes is the arguments after    *)
(* the trace word, in their order; option parsing stops at that word, so   *)
(* an option of the traced command is never taken for one of the tool's    *)
(* and never exported.                                                     *)
(***************************************************************************)
\* the place in argv (1-based) of the first trace word after argv[0]
TraceToken ==
  CHOOSE i \in 2..Len(argv) :
    argv[i] = S_trace /\ \A j \in 2..(i - 1) : argv[j] # S_trace

\* the arguments between argv[0] and the trace word
ToolFlags == {argv[j] : j \in 2..(TraceToken - 1)}

On == [set |-> TRUE, val |-> S_true]

C12_TraceExecVerbatim ==
  (~retrace /\ exec # << >>) =>
    /\ exec = SubSeq(argv, TraceToken + 1, Len(argv))
    /\ env["V4L2_TRACER_OPTION_COMPACT_PRINT"] = On => <<"-", "c">> \in ToolFlags
    /\ env["V4L2_TRACER_OPTION_DEBUG"] = On => <<"-", "g">> \in ToolFlags
    /\ env["V4L2_TRACER_OPTION_VERBOSE"] = On =>
         ToolFlags \cap {<<"-", "g">>, <<"-", "v">>, <<"-", "-", "verbose">>} # {}
    /\ env["V4L2_TRACER_OPTION_WRITE_DECODED_TO_JSON_FILE"] = On =>
         <<"-", "r">> \in ToolFlags
    /\ env["V4L2_TRACER_OPTION_WRITE_DECODED_TO_YUV_FILE"] = On =>
         <<"-", "y">> \in ToolFlags
    /\ IsPrefix(S_dev_video, env["V4L2_TRACER_OPTION_SET_VIDEO_DEVICE"].val) =>
         <<"-", "d">> \in ToolFlags

\* the child runs a command that has -g and -d 9 of its own, and neither
\* the debug toggle nor the video device is in the environment
C12_Witness ==
  /\ ~retrace
  /\ child.st = "running"
  /\ exec = TargetOptions
  /\ ~env["V4L2_TRACER_OPTION_DEBUG"].set
  /\ ~env["V4L2_TRACER_OPTION_SET_VIDEO_DEVICE"].set

(***************************************************************************)
(* C13: a retrace creates and closes one document and forks one child,     *)
(* whose command line is argv[0], __retrace and the source; the tool       *)
(* started with that command line calls the replay routine and neither     *)
(* opens a document nor forks, so the nesting ends at depth one.           *)
(***************************************************************************)
\* the place in argv (1-based) of the first retrace word after argv[0]
RetraceToken ==
  CHOOSE i \in 2..Len(argv) :
    argv[i] = S_retrace /\ \A j \in 2..(i - 1) : argv[j] # S_retrace

\* this run is the tool started with the command line of a retrace's child
NestedReplay == Len(argv) = 3 /\ argv[2] = S___retrace

C13_RetraceRedispatch ==
  /\ (InRetrace /\ exec # << >>) =>
        /\ exec = <<argv[1], S___retrace, argv[RetraceToken + 1]>>
        /\ exec \in Argvs
        /\ created \subseteq {trace_filename}
        /\ child.st # "none" => created = {trace_filename}
        /\ (pc \in {"returned", "exited"} /\ DocCreated) => Count(Doc, "]") = 1
  /\ NestedReplay =>
        /\ pc \in {"main", "get_options", "main_after_options", "call_retrace",
                    "returned"}
        /\ pc = "returned" => stderr = {}
        /\ created = {} /\ fsys = << >> /\ trace_file = Closed
        /\ child = NoChild /\ exec = << >>

\* the outer retrace is over: its child ran as the nested replay and left,
\* and the one document is closed
C13_Witness ==
  /\ InRetrace
  /\ pc = "returned"
  /\ child.st = "exited" /\ child.code = 0
  /\ created = {trace_filename}

(***************************************************************************)
(* C14: clean on what clean has written removes nothing: the second output *)
(* is the first, for every document and every length of line, lines        *)
(* longer than the buffer of clean included.                               *)
(***************************************************************************)
\* the second run was clean on the output of the first, and it went through
SecondClean ==
  /\ run = 2
  /\ Arg(1) = S_clean
  /\ pc = "returned"
  /\ "removed" \in stderr

\* the document the first clean was given
FirstInput == fsys[Tail(Arg(2))]

CleanedTwiceIsCleanedOnce ==
  /\ fsys[S_clean_ \o Arg(2)] = fsys[Arg(2)]
  /\ count_lines_removed = 0

NulFree(doc) == \A i \in DOMAIN doc : doc[i] # NUL

LineEnds(doc) ==
  {i \in DOMAIN doc : doc[i] = "\n"}
  \cup (IF doc # << >> /\ doc[Len(doc)] # "\n" THEN {Len(doc)} ELSE {})

\* the lines of a text, each with its newline
Lines(doc) ==
  LET ends == LineEnds(doc)
      nth(k) == IF k = 0 THEN 0
                ELSE CHOOSE e \in ends : Cardinality({x \in ends : x <= e}) = k
  IN [k \in 1..Cardinality(ends) |-> SubSeq(doc, nth(k - 1) + 1, nth(k))]

HasMarker(line) == \E mk \in Markers : Find(line, mk) # npos
HasNoMarker(line) == ~HasMarker(line)

RECURSIVE Joined(_)
Joined(lines) == IF lines = << >> THEN << >> ELSE Head(lines) \o Joined(Tail(lines))

\* clean went through
CleanDone == Arg(optind - 1) = S_clean /\ pc = "returned" /\ "removed" \in stderr

C15_CleanFilter ==
  CleanDone =>
    LET input == fsys[Arg(optind)]
        output == fsys[S_clean_ \o Arg(optind)]
    IN /\ output = Joined(SelectSeq(Lines(input), HasNoMarker))
       /\ count_total = Len(Lines(input))
       /\ count_lines_removed + Len(Lines(output)) = count_total

\* C15 for documents whose lines fit the buffer and hold no NUL byte
C15_ShortLines ==
  (CleanDone /\ NulFree(fsys[Arg(optind)]) /\ Len(fsys[Arg(optind)]) < SHRT_MAX)
    => C15_CleanFilter

(***************************************************************************)
(* C16: after option parsing, and for every environment the tool is        *)
(* started in, the debug toggle is in the environment only if the verbose  *)
(* toggle is.                                                              *)
(***************************************************************************)
DebugImpliesVerbose ==
  env["V4L2_TRACER_OPTION_DEBUG"].set => env["V4L2_TRACER_OPTION_VERBOSE"].set

\* get_options has returned 0
OptionsParsed == pc \notin {"main", "get_options"} /\ ret >= 0

C16_DebugImpliesVerbose ==
  OptionsParsed => DebugImpliesVerbose

\* C16 as the code has it: no step of the tool breaks the implication, so
\* it holds in every state of a run that starts in an environment where
\* it holds
C16_DebugImpliesVerboseKept ==
  [][DebugImpliesVerbose => DebugImpliesVerbose']_vars

\* option parsing is over and the debug flag has exported both toggles
C16_Witness ==
  /\ pc = "main_after_options"
  /\ ret = 0
  /\ env["V4L2_TRACER_OPTION_DEBUG"] = On
  /\ env["V4L2_TRACER_OPTION_VERBOSE"] = On

(***************************************************************************)
(* C17: every store into exec[], the null entry included, is at an index   *)
(* below argc, the length of the array, in a trace and in a retrace.       *)
(***************************************************************************)
\* the entries are stored at 0 .. Len(exec) - 1 and the null at Len(exec)
C17_ExecWithinBounds ==
  exec # << >> => Len(exec) < argc

(***************************************************************************)
(* C18: two traces started at different seconds of the wall clock have     *)
(* different session identifiers, so the later one never opens, and cuts   *)
(* to nothing, the document of the earlier one.                            *)
(***************************************************************************)
\* the second run reads the clock at least a second after the first did;
\* the files there are at its fopen are the ones the first run left
C18_LaterTraceNewDocument ==
  (run = 2 /\ ~retrace /\ pc = "tracer_open") => ~Exists(fsys, trace_filename)

(***************************************************************************)
(* C19: for every environment the tool is started in, the TRACE_ID the     *)
(* child inherits names the document the parent opened, headed and closes, *)
(* so the records of the child go to that document.                        *)
(***************************************************************************)
C19_ChildTraceIdIsDocument ==
  child.st # "none" =>
    /\ env["TRACE_ID"] = [set |-> TRUE, val |-> trace_id]
    /\ ShimFile = trace_filename

(***************************************************************************)
(* C20: tracer returns 0 and prints the completion message only if a child *)
(* was created and ended of its own accord with exit status 0.             *)
(***************************************************************************)
C20_SuccessOnlyAfterCleanExit ==
  (pc = "returned" /\ "complete" \in stderr) =>
    /\ child.st = "exited"
    /\ child.sig = 0
    /\ child.code = 0

(***************************************************************************)
(* C21: when parse_toml_protocol succeeds on a protocol table that has a   *)
(* scancodes table, the scancode list of the keymap has one entry for      *)
(* every key of that table, none left out, however many keys the protocol  *)
(* table has.                                                              *)
(***************************************************************************)
ScancodesTable == toml_table_in(proot, <<"scancodes">>)

\* the list is built by putting each new entry in front: entry n of the
\* table is entry Len - n + 1 of the list
C21_EveryScancodeKept ==
  (ppc = "returned" /\ err = 0 /\ ScancodesTable.found) =>
    LET t == ScancodesTable.val
    IN /\ Len(map.scancode) = Len(t)
       /\ \A n \in DOMAIN t :
            /\ map.scancode[Len(t) + 1 - n].scancode = strtoul(t[n].key)
            /\ map.scancode[Len(t) + 1 - n].keycode = toml_rtos(t[n].raw).val

====
